---- MODULE Spec2Model ----
(***************************************************************************)
(* Model of the encrypted direct-messaging service of GamePlan             *)
(* (src/src/services/messaging.ts, second copy of the service, lines       *)
(* 212-602, and the cipher wrapper in src/src/services/firebase.ts lines   *)
(* 50-109).                                                                *)
(*                                                                         *)
(* Every async function is a task that advances one await at a time: each  *)
(* document-store read or write and each local-storage write is one atomic *)
(* step, and tasks of different devices (and of the same device) interleave*)
(* between their awaits.                                                   *)
(*                                                                         *)
(* Document store semantics used (firebase/firestore):                     *)
(*  - setDoc(ref, data, {merge: true}) writes exactly the leaf fields of   *)
(*    data, merging nested maps, and creates the document when missing;    *)
(*  - the keys of data are field NAMES, not field paths: a key such as     *)
(*    "unreadCount.u1" names one top-level field with a dot in its name    *)
(*    (only updateDoc reads dotted keys as paths).                         *)
(***************************************************************************)
EXTENDS Integers, Sequences, FiniteSets, TLC

\* ---------------------------------------------------------------- bounds
MaxMsgs == 2
MaxKeys == 3
MaxCalls == 4
MaxLen == 2

\* ------------------------------------------------------------- universe
Users == {"A", "B", "X"}
Devices == {"dA", "dB", "dX"}
Conv == {"c1", "c2"}
Tasks == {1, 2}
\* a string is a sequence of code units: "h" an ordinary character, "BOM"
\* U+FEFF, "HS" an unpaired surrogate, "RC" U+FFFD
Units == {"h", "BOM", "HS", "RC"}
\* the text typed into the conversation screen
Plain == {<<"h">>}
\* the values randomBytes(24) returns for the nonce of a message
Nonces == {0}
\* bytes of the nonce and of the Poly1305 tag in the combined array
NonceLength == 24
TagLength == 16
\* strings of up to MaxLen code units
Texts == UNION {[1..n -> Units] : n \in 0..MaxLen}

None == 0
\* a numeric field the document does not have
Undefined == -1
Keys == 1..MaxKeys
LegacyKey == 1

\* the user signed in on a device (user.id of useAuth)
UserOf(d) == CASE d = "dA" -> "A" [] d = "dB" -> "B" [] OTHER -> "X"

\* the devices a task slot may run on: slot 1 is a call made on A's device,
\* slot 2 a concurrent call on B's device or on the non-participant X's
TaskDevices(t) == IF t = 1 THEN {"dA"} ELSE {"dB", "dX"}

\* the devices of the two users who chat; X only resolves keys, sends and listens
ChatDevices == {"dA", "dB"}

VARIABLES
    convs,    \* conversations collection: id -> document
    msgs,     \* conversations/<id>/messages: id -> sequence of documents
    cache,    \* device -> (conversation id -> key in local storage, or None)
    task,     \* task slot -> the running async call and its position
    ret,      \* the call that returned in the last step and its result
    nextKey,  \* the next key generateConversationKey returns
    clock,    \* Timestamp.now()
    genCount, \* history: conversation id -> number of keys generated for it
    origKey,  \* history: conversation id -> key generated by createConversation
    solo,     \* history: conversation id -> no two calls on it ever overlapped
    marked,   \* history: conversation id -> markMessagesAsRead was called on it
    calls,    \* history: number of calls of the service and of erasures of
              \*          local storage so far
    erased,   \* history: device -> (conversation id -> the key last erased from
              \*          its local storage, or None)
    bench     \* the inputs and the result of the cipher wrapper and of the
              \*          snapshot handler when they are run on their own, and
              \*          what the listener of a conversation screen was handed
              \*          and passed on

vars == <<convs, msgs, cache, task, ret, nextKey, clock, genCount, origKey, solo, marked, calls,
          erased, bench>>

\* ------------------------------------------------------------ documents
\* hasKeys: the document has a conversationKeysByUser field; keys: its entries;
\* unreadCount: the map field of that name; dotted: the top-level fields named
\* "unreadCount.<user id>"
NoDoc == [exists |-> FALSE, participants |-> <<>>, hasKeys |-> FALSE,
          keys |-> [u \in Users |-> None],
          lastMessageAt |-> 0, unreadCount |-> [u \in Users |-> Undefined],
          dotted |-> [u \in Users |-> Undefined]]

\* a conversation written by the first copy of createConversation (no
\* conversationKeysByUser, key only in the creator's local storage)
LegacyDoc == [NoDoc EXCEPT !.exists = TRUE, !.participants = <<"A", "B">>]

Range(s) == {s[i] : i \in 1..Len(s)}

\* ---------------------------------------------------------------- cipher
\* new TextEncoder().encode(message): the UTF-8 bytes, here one token for the
\* bytes of each code unit; an unpaired surrogate is encoded as U+FFFD
TextEncode(message) ==
    [i \in 1..Len(message) |-> IF message[i] = "HS" THEN "RC" ELSE message[i]]

\* new TextDecoder().decode(bytes): ignoreBOM is false, so a byte order mark at
\* the start is not part of the string returned
TextDecode(bytes) ==
    IF bytes # <<>> /\ bytes[1] = "BOM" THEN Tail(bytes) ELSE bytes

\* the Poly1305 tag of body under key and nonce
Tag(key, nonce, body) == [k |-> key, n |-> nonce, b |-> body, forged |-> FALSE]

\* combined = nonce ++ cipher.seal(nonce, messageBytes): seal returns the
\* encrypted body followed by its tag
Seal(key, nonce, messageBytes) ==
    [nonce |-> nonce, body |-> messageBytes, tag |-> Tag(key, nonce, messageBytes)]

\* cipher.open(nonce, ciphertext) returns the bytes iff the tag verifies
Opens(key, combined) ==
    combined.tag = Tag(key, combined.nonce, combined.body)

RECURSIVE ByteLength(_)
\* number of bytes the tokens stand for: one for "h", three for U+FEFF and U+FFFD
ByteLength(bytes) ==
    IF bytes = <<>> THEN 0
    ELSE (IF Head(bytes) = "h" THEN 1 ELSE 3) + ByteLength(Tail(bytes))

\* the base64 text of the combined array has bits that belong to no byte
\* unless its length is a multiple of three
HasSlack(combined) ==
    (NonceLength + ByteLength(combined.body) + TagLength) % 3 # 0

\* base64 text of the bytes: valid is that every character is of the
\* alphabet, slack the bits of the last character before the padding that
\* belong to no byte (encode writes them as zero)
encode(bytes) == [bytes |-> bytes, slack |-> 0, valid |-> TRUE]

encryptMessage(message, key, nonce) ==
    encode(Seal(key, nonce, TextEncode(message)))

\* throw new Error("Failed to decrypt message")
Failed == [ok |-> FALSE, text |-> <<>>]

\* decode(encryptedData) throws on a character outside the alphabet and does
\* not look at the slack bits; a null from cipher.open is thrown as an error
decryptMessage(encryptedData, key) ==
    IF encryptedData.valid /\ Opens(key, encryptedData.bytes)
    THEN [ok |-> TRUE, text |-> TextDecode(encryptedData.bytes.body)]
    ELSE Failed

\* ------------------------------------------------------------ key store
\* mutant: the write replaces the map instead of merging into it
MergeKeyReplace(keys, userId, key) ==
    [u \in Users |-> IF u = userId THEN key ELSE None]

\* setDoc(convDoc, {conversationKeysByUser: {[userId]: key}}, {merge: true})
MergeKey(keys, userId, key) == [keys EXCEPT ![userId] = key]

\* mutant: the key is set for the first participant only
MigrationKeysFirst(keys, participants, newKey) ==
    [u \in Users |-> IF participants # <<>> /\ u = participants[1] THEN newKey
                     ELSE keys[u]]

\* keysByUser built by the migration branch, merged into the document
MigrationKeys(keys, participants, newKey) ==
    [u \in Users |-> IF u \in Range(participants) THEN newKey ELSE keys[u]]

\* mutant: the type test never succeeds
HasFirestoreKeyNever(data, userId) == FALSE

\* data.conversationKeysByUser && typeof ...[userId] === "string"
HasFirestoreKey(data, userId) ==
    data.hasKeys /\ data.keys[userId] # None

\* mutant: the test that the map is absent is left out
NeedsMigrationLoose(data) == data.participants # <<>>

\* !data.conversationKeysByUser && data.participants
NeedsMigration(data) ==
    ~data.hasKeys /\ data.participants # <<>>

\* ---------------------------------------------------------------- bench
\* did: the last operation run; pt, key, ct: the text and key given to
\* encryptMessage and the text it returned, how: what was changed in ct since;
\* dk, out: the key given to decryptMessage and its result; docs: a messages
\* collection, bad: the documents in it whose ciphertext was corrupted; snap,
\* list: the snapshot handed to a listener and the list it passed on; pushed,
\* shown: the sizes of the snapshots the listener of a screen was handed and
\* of those its callback was invoked for, each in the order it happened; seen:
\* the ids of the messages that were in a list passed to that callback
NoBench == [did |-> "none", pt |-> <<>>, key |-> None, ct |-> encode(Seal(None, 0, <<>>)),
            how |-> "", dk |-> None, out |-> Failed,
            docs |-> <<>>, bad |-> {}, snap |-> <<>>, list |-> <<>>,
            pushed |-> <<>>, shown |-> <<>>, seen |-> {}]

\* the state of the service while the bench runs
ServiceIdle ==
    UNCHANGED <<convs, msgs, cache, task, ret, nextKey, clock, genCount, origKey,
                solo, marked, calls, erased>>

\* the ways one byte of a base64 text can differ: a byte of the nonce, of the
\* body or of the tag comes out different, only slack bits differ, or the
\* character is not of the alphabet
Changes == {"nonce", "body", "tag", "slack", "char"}

\* the texts that differ from encryptedData in one byte in the way how
Changed(encryptedData, how) ==
    LET combined == encryptedData.bytes
    IN CASE how = "nonce" -> {[encryptedData EXCEPT !.bytes.nonce = 1 - @]}
         [] how = "body" ->
              {[encryptedData EXCEPT !.bytes.body[i] = b] :
                  i \in DOMAIN combined.body, b \in {"h", "RC"}}
                \ {encryptedData}
         [] how = "tag" -> {[encryptedData EXCEPT !.bytes.tag.forged = TRUE]}
         [] how = "slack" ->
              IF HasSlack(combined) THEN {[encryptedData EXCEPT !.slack = 1]} ELSE {}
         [] OTHER -> {[encryptedData EXCEPT !.valid = FALSE]}

\* ---------------------------------------------------------------- tasks
\* a call of the service: op is the function called, pc the await it is
\* suspended at ("done": no call, or it has returned and res/key/id/list hold
\* its result),
\* cur what the call read (the unread count a send read, the number of
\* messages in the collection when a mark queried it),
\* w the number of document-store writes the call has made, off that the
\* listener a snapshot handler belongs to has been unsubscribed
Idle == [op |-> "none", pc |-> "done", d |-> "dA", u |-> "A", c |-> "c1",
         key |-> None, pt |-> <<>>, other |-> "", cur |-> 0, sel |-> {},
         list |-> <<>>, n |-> 0, res |-> "", id |-> "", w |-> 0, off |-> FALSE]

Running(t) == task[t].pc # "done"

\* task t moves to r; a call that has returned leaves its slot and shows in ret
Step(t, r) ==
    /\ task' = [task EXCEPT ![t] = IF r.pc = "done" THEN Idle ELSE r]
    /\ ret' = IF r.pc = "done" THEN r ELSE Idle

\* a call may name a conversation id once the id exists; "c1" is an id a screen
\* can be opened with whether or not its document exists
Nameable(c) == c = "c1" \/ convs[c].exists

\* messages of conversation c that exist or are about to be appended
Outstanding(c) ==
    Len(msgs[c]) + Cardinality({t \in Tasks : task[t].op = "send" /\ task[t].c = c
                                    /\ task[t].pc \in {"L_get", "L_mig", "K_remote", "S_add"}})

\* mutant: sendEncryptedMessage goes on without a key
AfterLoadFallback(r, key) ==
    CASE r.op = "load" ->
            [r EXCEPT !.pc = "done", !.key = key,
                      !.res = IF key = None THEN "null" ELSE "key"]
      [] r.op = "send" -> [r EXCEPT !.pc = "S_add", !.key = key]
      [] OTHER ->
            IF key = None
            THEN [r EXCEPT !.pc = "done", !.res = "nokey", !.key = None]
            ELSE [r EXCEPT !.pc = "H_cb", !.key = key]

\* mutant: the snapshot handler goes on to the callback without a key
AfterLoadNoReturn(r, key) ==
    CASE r.op = "load" ->
            [r EXCEPT !.pc = "done", !.key = key,
                      !.res = IF key = None THEN "null" ELSE "key"]
      [] r.op = "send" ->
            IF key = None
            THEN [r EXCEPT !.pc = "done", !.res = "error", !.key = None]
            ELSE [r EXCEPT !.pc = "S_add", !.key = key]
      [] OTHER -> [r EXCEPT !.pc = "H_cb", !.key = key]

\* what the caller of loadConversationKey does with its result
AfterLoad(r, key) ==
    CASE r.op = "load" ->
            [r EXCEPT !.pc = "done", !.key = key,
                      !.res = IF key = None THEN "null" ELSE "key"]
      [] r.op = "send" ->
            IF key = None
            THEN [r EXCEPT !.pc = "done", !.res = "error", !.key = None]
            ELSE [r EXCEPT !.pc = "S_add", !.key = key]
      [] OTHER ->
            IF key = None
            THEN [r EXCEPT !.pc = "done", !.res = "nokey", !.key = None]
            ELSE [r EXCEPT !.pc = "H_cb", !.key = key]

\* ------------------------------------------------- saveConversationKey
\* localStorage.setItem / SecureStore.setItemAsync(conv_key_<id>, key): the write
\* is issued in the turn in which saveConversationKey is called
SaveLocal(store, d, conversationId, key) ==
    [store EXCEPT ![d][conversationId] = key]

\* "Also save to Firestore if userId is provided": the merge write lands and
\* the caller of saveConversationKey goes on
SaveRemote(t) ==
    /\ task[t].pc = "K_remote"
    /\ LET r == task[t]
           data == convs[r.c]
       IN /\ convs' = [convs EXCEPT ![r.c] =
                [data EXCEPT !.exists = TRUE, !.hasKeys = TRUE,
                             !.keys = MergeKey(data.keys, r.u, r.key)]]
          /\ Step(t,
                IF r.op = "create"
                THEN [r EXCEPT !.pc = "done", !.res = "id", !.id = r.c, !.w = @ + 1]
                ELSE AfterLoad([r EXCEPT !.w = @ + 1], r.key))
    /\ UNCHANGED <<msgs, cache, nextKey, clock, genCount, origKey, solo, marked, calls>>
    /\ UNCHANGED <<bench, erased>>

\* ------------------------------------------------- loadConversationKey
\* mutant: the shared record is read whatever local storage holds
LoadCacheSkipped(r) == [r EXCEPT !.pc = "L_get"]

\* "Try device storage first": the read of local storage is issued in the turn
\* of the call; on a miss the call goes on to getDoc
LoadCache(r) ==
    IF cache[r.d][r.c] # None THEN AfterLoad(r, cache[r.d][r.c])
    ELSE [r EXCEPT !.pc = "L_get"]

\* no other call on conversation c is in flight
NoOtherCall(t, c) == \A o \in Tasks \ {t} : ~(Running(o) /\ task[o].c = c)

StartLoad(t, d, c) ==
    /\ ~Running(t)
    /\ calls < MaxCalls
    /\ calls' = calls + 1
    /\ d \in TaskDevices(t)
    /\ Nameable(c)
    /\ Step(t,
                  LoadCache([Idle EXCEPT !.op = "load", !.d = d, !.u = UserOf(d), !.c = c]))
    /\ solo' = [solo EXCEPT ![c] = @ /\ NoOtherCall(t, c)]
    /\ UNCHANGED marked
    /\ UNCHANGED <<convs, msgs, cache, nextKey, clock, genCount, origKey>>
    /\ UNCHANGED <<bench, erased>>

\* getDoc(doc(db, "conversations", conversationId)) lands; the branch taken on
\* the data read, up to the next await on the document store
LoadGetDoc(t) ==
    /\ task[t].pc = "L_get"
    /\ LET r == task[t]
           data == convs[r.c]
       IN IF data.exists /\ HasFirestoreKey(data, r.u)
          THEN /\ Step(t,
                            [r EXCEPT !.pc = "K_remote", !.key = data.keys[r.u]])
               /\ cache' = SaveLocal(cache, r.d, r.c, data.keys[r.u])
               /\ UNCHANGED <<nextKey, genCount>>
          ELSE IF data.exists /\ NeedsMigration(data)
          THEN /\ nextKey <= MaxKeys
               /\ Step(t, [r EXCEPT !.pc = "L_mig", !.key = nextKey])
               /\ nextKey' = nextKey + 1
               /\ genCount' = [genCount EXCEPT ![r.c] = @ + 1]
               /\ UNCHANGED cache
          ELSE /\ Step(t, AfterLoad(r, None))
               /\ UNCHANGED <<nextKey, genCount, cache>>
    /\ UNCHANGED <<convs, msgs, clock, origKey, solo, marked, calls>>
    /\ UNCHANGED <<bench, erased>>

\* setDoc(..., {conversationKeysByUser: keysByUser}, {merge: true}) lands;
\* saveConversationKey(conversationId, newKey, userId) is called
LoadMigrate(t) ==
    /\ task[t].pc = "L_mig"
    /\ LET r == task[t]
           data == convs[r.c]
       IN /\ convs' = [convs EXCEPT ![r.c] =
                [data EXCEPT !.exists = TRUE, !.hasKeys = TRUE,
                             !.keys = MigrationKeys(data.keys, data.participants, r.key)]]
          /\ Step(t, [r EXCEPT !.pc = "K_remote", !.w = @ + 1])
          /\ cache' = SaveLocal(cache, r.d, r.c, r.key)
    /\ UNCHANGED <<msgs, nextKey, clock, genCount, origKey, solo, marked, calls>>
    /\ UNCHANGED <<bench, erased>>

\* ------------------------------------------------- sendEncryptedMessage
StartSend(t, d, c, message) ==
    /\ ~Running(t)
    /\ calls < MaxCalls
    /\ calls' = calls + 1
    /\ d \in TaskDevices(t)
    /\ Nameable(c)
    /\ Outstanding(c) < MaxMsgs
    /\ Step(t,
                  LoadCache([Idle EXCEPT !.op = "send", !.d = d, !.u = UserOf(d),
                                         !.c = c, !.pt = message]))
    /\ solo' = [solo EXCEPT ![c] = @ /\ NoOtherCall(t, c)]
    /\ UNCHANGED marked
    /\ UNCHANGED <<convs, msgs, cache, nextKey, clock, genCount, origKey>>
    /\ UNCHANGED <<bench, erased>>

\* mutant: the message is stored as already read
NewMessageRead(senderId, message, sharedKey, nonce, now) ==
    [senderId |-> senderId,
     encryptedContent |-> encryptMessage(message, sharedKey, nonce),
     timestamp |-> now, read |-> TRUE]

\* the message document of addDoc(collection(..."/messages"), {...})
NewMessage(senderId, message, sharedKey, nonce, now) ==
    [senderId |-> senderId,
     encryptedContent |-> encryptMessage(message, sharedKey, nonce),
     timestamp |-> now, read |-> FALSE]

\* addDoc of the message lands
SendAdd(t) ==
    /\ task[t].pc = "S_add"
    /\ LET r == task[t]
       IN /\ \E nonce \in Nonces :
               msgs' = [msgs EXCEPT ![r.c] =
                          Append(@, NewMessage(r.u, r.pt, r.key, nonce, clock))]
          /\ Step(t, [r EXCEPT !.pc = "S_get", !.w = @ + 1])
    /\ clock' = clock + 1
    /\ UNCHANGED <<convs, cache, nextKey, genCount, origKey, solo, marked, calls>>
    /\ UNCHANGED <<bench, erased>>

\* participants.find((id) => id !== senderId), "" when there is none
OtherUser(participants, senderId) ==
    IF \E i \in 1..Len(participants) : participants[i] # senderId
    THEN participants[CHOOSE i \in 1..Len(participants) :
                        /\ participants[i] # senderId
                        /\ \A j \in 1..(i - 1) : participants[j] = senderId]
    ELSE ""

\* convDoc.data().unreadCount?.[otherUserId] || 0
CurrentUnread(data, otherUserId) ==
    IF data.unreadCount[otherUserId] = Undefined THEN 0
    ELSE data.unreadCount[otherUserId]

\* getDoc of the conversation lands, "Get conversation to find other participant"
SendGetDoc(t) ==
    /\ task[t].pc = "S_get"
    /\ LET r == task[t]
           data == convs[r.c]
           otherUserId == OtherUser(data.participants, r.u)
       IN Step(t,
                    IF data.exists /\ otherUserId # ""
                    THEN [r EXCEPT !.pc = "S_set", !.other = otherUserId,
                                   !.cur = CurrentUnread(data, otherUserId)]
                    ELSE [r EXCEPT !.pc = "done", !.res = "sent"])
    /\ UNCHANGED <<convs, msgs, cache, nextKey, clock, genCount, origKey, solo, marked, calls>>
    /\ UNCHANGED <<bench, erased>>

\* setDoc(conv, {lastMessageAt: now, ["unreadCount." + other]: n}, {merge: true}):
\* the dotted key is the name of one top-level field
SetUnreadField(data, userId, n, now) ==
    [data EXCEPT !.exists = TRUE, !.lastMessageAt = now, !.dotted[userId] = n]

SendSetDoc(t) ==
    /\ task[t].pc = "S_set"
    /\ LET r == task[t]
       IN /\ convs' = [convs EXCEPT ![r.c] = SetUnreadField(@, r.other, r.cur + 1, clock)]
          /\ Step(t, [r EXCEPT !.pc = "done", !.res = "sent",
                                                   !.w = @ + 1])
    /\ clock' = clock + 1
    /\ UNCHANGED <<msgs, cache, nextKey, genCount, origKey, solo, marked, calls>>
    /\ UNCHANGED <<bench, erased>>

\* ------------------------------------------------- subscribeToMessages
\* mutant: the documents in the order they were added
SnapshotDocsAsAdded(docs) == [i \in 1..Len(docs) |-> [id |-> i, doc |-> docs[i]]]

\* snapshot.docs of the query orderBy("timestamp", "asc"): the documents by
\* timestamp, those of equal timestamp by document id
SnapshotDocs(docs) ==
    LET ids == 1..Len(docs)
        Before(i, j) == \/ docs[i].timestamp < docs[j].timestamp
                        \/ docs[i].timestamp = docs[j].timestamp /\ i < j
        Rank(i) == Cardinality({j \in ids : Before(j, i)}) + 1
    IN [n \in ids |-> LET i == CHOOSE j \in ids : Rank(j) = n
                      IN [id |-> i, doc |-> docs[i]]]

\* one snapshot of the live query reaches the listener
StartSnapshot(t, d, c) ==
    /\ ~Running(t)
    /\ calls < MaxCalls
    /\ calls' = calls + 1
    /\ d \in TaskDevices(t)
    /\ Nameable(c)
    /\ Step(t,
                  LoadCache([Idle EXCEPT !.op = "snapshot", !.d = d, !.u = UserOf(d),
                                         !.c = c, !.list = SnapshotDocs(msgs[c]),
                                         !.n = Len(msgs[c])]))
    /\ solo' = [solo EXCEPT ![c] = @ /\ NoOtherCall(t, c)]
    /\ UNCHANGED marked
    /\ UNCHANGED <<convs, msgs, cache, nextKey, clock, genCount, origKey>>
    /\ UNCHANGED <<bench, erased>>

\* mutant: one message that fails to decrypt empties the list
DecryptedOrNone(docs, sharedKey) ==
    IF \E n \in DOMAIN docs :
          decryptMessage(docs[n].doc.encryptedContent, sharedKey) = Failed
    THEN <<>>
    ELSE [n \in DOMAIN docs |->
            [id |-> docs[n].id, senderId |-> docs[n].doc.senderId,
             content |-> decryptMessage(docs[n].doc.encryptedContent, sharedKey).text,
             timestamp |-> docs[n].doc.timestamp, read |-> docs[n].doc.read]]

RECURSIVE Decrypted(_, _)
\* snapshot.docs.map(decrypt-or-null).filter(m => m !== null)
Decrypted(docs, sharedKey) ==
    IF docs = <<>> THEN <<>>
    ELSE LET e == Head(docs)
             content == decryptMessage(e.doc.encryptedContent, sharedKey)
             rest == Decrypted(Tail(docs), sharedKey)
         IN IF content = Failed THEN rest
            ELSE <<[id |-> e.id, senderId |-> e.doc.senderId, content |-> content.text,
                    timestamp |-> e.doc.timestamp, read |-> e.doc.read]>> \o rest

\* callback(messages)
SnapshotCallback(t) ==
    /\ task[t].pc = "H_cb"
    /\ LET r == task[t]
       IN Step(t, [r EXCEPT !.pc = "done", !.res = "callback",
                                                !.list = Decrypted(r.list, r.key)])
    /\ UNCHANGED <<convs, msgs, cache, nextKey, clock, genCount, origKey, solo, marked, calls>>
    /\ UNCHANGED <<bench, erased>>

\* ------------------------------------------------- markMessagesAsRead
\* where("senderId", "!=", userId), where("read", "==", false)
UnreadFrom(docs, userId) ==
    {i \in 1..Len(docs) : docs[i].senderId # userId /\ ~docs[i].read}

\* the call and its getDocs(q)
StartMark(t, d, c) ==
    /\ ~Running(t)
    /\ calls < MaxCalls
    /\ calls' = calls + 1
    /\ d \in TaskDevices(t) \cap ChatDevices
    /\ Nameable(c)
    /\ Step(t, [Idle EXCEPT !.op = "mark", !.pc = "M_query",
                                        !.d = d, !.u = UserOf(d), !.c = c])
    /\ solo' = [solo EXCEPT ![c] = @ /\ NoOtherCall(t, c)]
    /\ marked' = [marked EXCEPT ![c] = TRUE]
    /\ UNCHANGED <<convs, msgs, cache, nextKey, clock, genCount, origKey>>
    /\ UNCHANGED <<bench, erased>>

\* getDocs(q) lands
MarkQuery(t) ==
    /\ task[t].pc = "M_query"
    /\ LET r == task[t]
           found == UnreadFrom(msgs[r.c], r.u)
       IN Step(t,
                    [r EXCEPT !.sel = found, !.n = Cardinality(found),
                              !.cur = Len(msgs[r.c]),
                              !.pc = IF found = {} THEN "M_reset" ELSE "M_batch"])
    /\ UNCHANGED <<convs, msgs, cache, nextKey, clock, genCount, origKey, solo, marked, calls>>
    /\ UNCHANGED <<bench, erased>>

\* one setDoc(doc.ref, {read: true}, {merge: true}) of the batch lands
MarkWrite(t) ==
    /\ task[t].pc = "M_batch"
    /\ LET r == task[t]
           i == CHOOSE j \in r.sel : \A k \in r.sel : j <= k
           left == r.sel \ {i}
       IN /\ msgs' = [msgs EXCEPT ![r.c][i].read = TRUE]
          /\ Step(t,
                        [r EXCEPT !.sel = left, !.w = @ + 1,
                                  !.pc = IF left = {} THEN "M_reset" ELSE "M_batch"])
    /\ UNCHANGED <<convs, cache, nextKey, clock, genCount, origKey, solo, marked, calls>>
    /\ UNCHANGED <<bench, erased>>

\* mutant: the counter is left as it is
ResetUnreadFieldNot(data, userId) == [data EXCEPT !.exists = TRUE]

\* setDoc(conv, {["unreadCount." + userId]: 0}, {merge: true})
ResetUnreadField(data, userId) ==
    [data EXCEPT !.exists = TRUE, !.dotted[userId] = 0]

MarkReset(t) ==
    /\ task[t].pc = "M_reset"
    /\ LET r == task[t]
       IN /\ convs' = [convs EXCEPT ![r.c] = ResetUnreadField(@, r.u)]
          /\ Step(t, [r EXCEPT !.pc = "done", !.res = "marked",
                                                   !.w = @ + 1])
    /\ UNCHANGED <<msgs, cache, nextKey, clock, genCount, origKey, solo, marked, calls>>
    /\ UNCHANGED <<bench, erased>>

\* ------------------------------------------------- createConversation
\* mutant: the key is stored for the creator alone
NewConversationCreatorOnly(currentUserId, otherUserId, conversationKey, now) ==
    [NoDoc EXCEPT !.exists = TRUE,
                  !.participants = <<currentUserId, otherUserId>>,
                  !.lastMessageAt = now,
                  !.hasKeys = TRUE,
                  !.keys = [u \in Users |->
                              IF u = currentUserId THEN conversationKey ELSE None]]

\* the document of addDoc(collection(db, "conversations"), {...})
NewConversation(currentUserId, otherUserId, conversationKey, now) ==
    [NoDoc EXCEPT !.exists = TRUE,
                  !.participants = <<currentUserId, otherUserId>>,
                  !.lastMessageAt = now,
                  !.hasKeys = TRUE,
                  !.keys = [u \in Users |->
                              IF u \in {currentUserId, otherUserId}
                              THEN conversationKey ELSE None]]

\* conversations that are chats (documents with participants); conversations
\* share no state, and the model follows one chat at a time: createConversation
\* is called when "c1" is not a chat
Chats == {c \in Conv : convs[c].participants # <<>>}

\* generateConversationKey(), addDoc under a fresh id, and the call of
\* saveConversationKey(conversationRef.id, conversationKey, currentUserId)
CreateAdd(t, d, c, otherUserId) ==
    /\ ~Running(t)
    /\ calls < MaxCalls
    /\ calls' = calls + 1
    /\ d \in TaskDevices(t) \cap ChatDevices
    /\ ~Nameable(c)
    /\ Chats = {}
    /\ nextKey <= MaxKeys
    /\ convs' = [convs EXCEPT ![c] = NewConversation(UserOf(d), otherUserId, nextKey, clock)]
    /\ Step(t, [Idle EXCEPT !.op = "create", !.pc = "K_remote",
                                        !.d = d, !.u = UserOf(d), !.c = c, !.w = 1,
                                        !.other = otherUserId, !.key = nextKey])
    /\ cache' = SaveLocal(cache, d, c, nextKey)
    /\ nextKey' = nextKey + 1
    /\ clock' = clock + 1
    /\ genCount' = [genCount EXCEPT ![c] = @ + 1]
    /\ origKey' = [origKey EXCEPT ![c] = nextKey]
    /\ UNCHANGED <<msgs, solo, marked>>
    /\ UNCHANGED <<bench, erased>>

\* ------------------------------------------------- findConversation
\* snapshot.docs.find(doc => participants.includes(userId2)) over the documents
\* whose participants contain userId1, in document order; "" for null
FindResult(docs, userId1, userId2) ==
    LET hits == {c \in Conv : /\ docs[c].exists
                              /\ userId1 \in Range(docs[c].participants)
                              /\ userId2 \in Range(docs[c].participants)}
    IN IF hits = {} THEN ""
       ELSE IF "c1" \in hits THEN "c1" ELSE "c2"

\* getDocs(q) lands and the call returns
findConversation(t, d, userId2) ==
    /\ ~Running(t)
    /\ calls < MaxCalls
    /\ calls' = calls + 1
    /\ d \in TaskDevices(t) \cap ChatDevices
    /\ LET id == FindResult(convs, UserOf(d), userId2)
       IN Step(t,
                    [Idle EXCEPT !.op = "find", !.pc = "done", !.d = d, !.u = UserOf(d),
                                 !.other = userId2, !.id = id,
                                 !.res = IF id = "" THEN "null" ELSE "id"])
    /\ UNCHANGED <<convs, msgs, cache, nextKey, clock, genCount, origKey, solo, marked>>
    /\ UNCHANGED <<bench, erased>>

\* ------------------------------------------------- environment
\* local storage is not durable across a reinstall
EraseCache(d, c) ==
    /\ cache[d][c] # None
    /\ calls < MaxCalls
    /\ calls' = calls + 1
    /\ cache' = [cache EXCEPT ![d][c] = None]
    /\ erased' = [erased EXCEPT ![d][c] = cache[d][c]]
    /\ ret' = Idle
    /\ UNCHANGED <<convs, msgs, task, nextKey, clock, genCount, origKey, solo, marked>>
    /\ UNCHANGED bench

\* the unsubscribe handle of the listener whose handler runs in slot t is
\* invoked (the conversation screen unmounts) while the handler awaits the
\* key: the handler is not stopped; snapshots that start later belong to a
\* later subscription
Unsubscribe(t) ==
    /\ task[t].op = "snapshot"
    /\ Running(t)
    /\ ~task[t].off
    /\ calls < MaxCalls
    /\ calls' = calls + 1
    /\ task' = [task EXCEPT ![t].off = TRUE]
    /\ ret' = Idle
    /\ UNCHANGED <<convs, msgs, cache, nextKey, clock, genCount, origKey, solo, marked>>
    /\ UNCHANGED <<bench, erased>>

\* ------------------------------------------------- specification
\* "c1" is either no document or a conversation written by the first copy of
\* createConversation, whose creator A may still hold its key in local storage
Init ==
    /\ \E legacy \in BOOLEAN, kept \in BOOLEAN :
          /\ convs = [c \in Conv |-> IF c = "c1" /\ legacy THEN LegacyDoc ELSE NoDoc]
          /\ cache = [d \in Devices |-> [c \in Conv |->
                        IF legacy /\ kept /\ d = "dA" /\ c = "c1"
                        THEN LegacyKey ELSE None]]
    /\ msgs = [c \in Conv |-> <<>>]
    /\ task = [t \in Tasks |-> Idle]
    /\ ret = Idle
    /\ nextKey = LegacyKey + 1
    /\ clock = 1
    /\ genCount = [c \in Conv |-> 0]
    /\ origKey = [c \in Conv |-> None]
    /\ solo = [c \in Conv |-> TRUE]
    /\ marked = [c \in Conv |-> FALSE]
    /\ calls = 0
    /\ erased = [d \in Devices |-> [c \in Conv |-> None]]
    /\ bench = NoBench

Next ==
    \/ \E t \in Tasks, d \in Devices, c \in Conv : StartLoad(t, d, c)
    \/ \E t \in Tasks : LoadGetDoc(t)
    \/ \E t \in Tasks : LoadMigrate(t)
    \/ \E t \in Tasks : SaveRemote(t)
    \/ \E t \in Tasks, d \in Devices, c \in Conv, p \in Plain : StartSend(t, d, c, p)
    \/ \E t \in Tasks : SendAdd(t)
    \/ \E t \in Tasks : SendGetDoc(t)
    \/ \E t \in Tasks : SendSetDoc(t)
    \/ \E t \in Tasks, d \in Devices, c \in Conv : StartSnapshot(t, d, c)
    \/ \E t \in Tasks : SnapshotCallback(t)
    \/ \E t \in Tasks, d \in Devices, c \in Conv : StartMark(t, d, c)
    \/ \E t \in Tasks : MarkQuery(t)
    \/ \E t \in Tasks : MarkWrite(t)
    \/ \E t \in Tasks : MarkReset(t)
    \/ \E t \in Tasks, d \in Devices, c \in Conv, o \in {"A", "B"} : CreateAdd(t, d, c, o)
    \/ \E t \in Tasks, d \in Devices, o \in {"A", "B"} : findConversation(t, d, o)
    \/ \E d \in Devices, c \in Conv : EraseCache(d, c)
    \/ \E t \in Tasks : Unsubscribe(t)

Spec == Init /\ [][Next]_vars

\* ------------------------------------------------- the snapshot handler alone
\* A messages collection as any clients may have left it: messages of either
\* participant sealed under either of two keys, with the timestamps of the
\* senders' clocks, some marked read, some corrupted in the store.
ListenKeys == {LegacyKey, LegacyKey + 1}
\* Timestamp.now() of the senders' clocks
ListenClocks == {1, 2}
\* the collection holds up to this many messages
ListenDocs == MaxMsgs + 1

\* the collection changes: the last snapshot is no longer the current one
Stale == [bench EXCEPT !.did = "store", !.key = None, !.snap = <<>>, !.list = <<>>]

\* addDoc of a message by some client
StoreMessage(senderId, sharedKey, now) ==
    /\ Len(bench.docs) < ListenDocs
    /\ \E message \in Plain, nonce \in Nonces :
          bench' = [Stale EXCEPT
                      !.docs = Append(@, NewMessage(senderId, message, sharedKey, nonce, now))]
    /\ ServiceIdle

\* setDoc(doc.ref, {read: true}, {merge: true}) of markMessagesAsRead called
\* by B, on a message B's query finds
StoreRead(i) ==
    /\ i \in UnreadFrom(bench.docs, "B")
    /\ bench' = [Stale EXCEPT !.docs[i].read = TRUE]
    /\ ServiceIdle

\* the stored ciphertext of message i is corrupted: a byte of its body changes
StoreCorrupt(i) ==
    /\ i \in DOMAIN bench.docs
    /\ i \notin bench.bad
    /\ \E changed \in Changed(bench.docs[i].encryptedContent, "body") :
          bench' = [Stale EXCEPT !.bad = @ \cup {i},
                                 !.docs[i].encryptedContent = changed]
    /\ ServiceIdle

\* the handler of onSnapshot with the key loadConversationKey resolved
HandleSnapshot(sharedKey) ==
    /\ bench' = [bench EXCEPT !.did = "handle", !.key = sharedKey,
                               !.snap = SnapshotDocs(bench.docs),
                               !.list = Decrypted(SnapshotDocs(bench.docs), sharedKey)]
    /\ ServiceIdle

InitListen ==
    /\ convs = [c \in Conv |-> NoDoc]
    /\ cache = [d \in Devices |-> [c \in Conv |-> None]]
    /\ msgs = [c \in Conv |-> <<>>]
    /\ task = [t \in Tasks |-> Idle]
    /\ ret = Idle
    /\ nextKey = LegacyKey + 1
    /\ clock = 1
    /\ genCount = [c \in Conv |-> 0]
    /\ origKey = [c \in Conv |-> None]
    /\ solo = [c \in Conv |-> TRUE]
    /\ marked = [c \in Conv |-> FALSE]
    /\ calls = 0
    /\ erased = [d \in Devices |-> [c \in Conv |-> None]]
    /\ bench = NoBench

NextListen ==
    \/ \E senderId \in {"A", "B"}, sharedKey \in ListenKeys, now \in ListenClocks :
          StoreMessage(senderId, sharedKey, now)
    \/ \E i \in 1..ListenDocs : StoreRead(i)
    \/ \E i \in 1..ListenDocs : StoreCorrupt(i)
    \/ \E sharedKey \in ListenKeys : HandleSnapshot(sharedKey)

SpecListen == InitListen /\ [][NextListen]_vars

\* ------------------------------------------------- the cipher wrapper alone
\* encryptMessage(message, key) with the nonce randomBytes returned
Encrypt(message, key, nonce) ==
    /\ bench' = [NoBench EXCEPT !.did = "encrypt", !.pt = message, !.key = key,
                                !.ct = encryptMessage(message, key, nonce)]
    /\ ServiceIdle

\* one byte of the text encryptMessage returned is changed
ChangeByte(how) ==
    /\ bench.did = "encrypt"
    /\ \E changed \in Changed(bench.ct, how) :
          bench' = [bench EXCEPT !.did = "change", !.how = how, !.ct = changed]
    /\ ServiceIdle

\* decryptMessage(ct, key)
Decrypt(key) ==
    /\ bench.did \in {"encrypt", "change"}
    /\ bench' = [bench EXCEPT !.did = "decrypt", !.dk = key,
                               !.out = decryptMessage(bench.ct, key)]
    /\ ServiceIdle

InitCipher == InitListen

NextCipher ==
    \/ \E message \in Texts, key \in Keys, nonce \in Nonces : Encrypt(message, key, nonce)
    \/ \E how \in Changes : ChangeByte(how)
    \/ \E key \in Keys : Decrypt(key)

SpecCipher == InitCipher /\ [][NextCipher]_vars

\* ------------------------------------------------- the start-conversation flow
\* StartConversationButton.handlePress on the devices of A and B:
\* findConversation, and createConversation when it returned null. Each await
\* on the document store is a step; presses on the two devices interleave.

\* the id addDoc gives the new document: one no document has
FreshId == IF ~convs["c1"].exists THEN "c1" ELSE "c2"

\* the button is pressed: findConversation(user.id, otherUserId) issues getDocs
handlePress(t, d, otherUserId) ==
    /\ ~Running(t)
    /\ calls < MaxCalls
    /\ calls' = calls + 1
    /\ d \in TaskDevices(t) \cap ChatDevices
    /\ Step(t, [Idle EXCEPT !.op = "find", !.pc = "F_query", !.d = d, !.u = UserOf(d),
                            !.other = otherUserId])
    /\ UNCHANGED <<convs, msgs, cache, nextKey, clock, genCount, origKey, solo, marked>>
    /\ UNCHANGED <<bench, erased>>

\* getDocs lands: with an id the flow goes to the chat screen, with null
\* createConversation is called and issues its addDoc
PressFind(t) ==
    /\ task[t].pc = "F_query"
    /\ LET r == task[t]
           conversationId == FindResult(convs, r.u, r.other)
       IN Step(t, IF conversationId # ""
                  THEN [r EXCEPT !.pc = "done", !.res = "id", !.id = conversationId]
                  ELSE [r EXCEPT !.op = "create", !.pc = "C_add"])
    /\ UNCHANGED <<convs, msgs, cache, nextKey, clock, genCount, origKey, solo, marked, calls>>
    /\ UNCHANGED <<bench, erased>>

\* the addDoc of createConversation lands under a fresh id and
\* saveConversationKey(conversationRef.id, conversationKey, currentUserId) is called
PressCreate(t) ==
    /\ task[t].pc = "C_add"
    /\ \E c \in Conv : ~convs[c].exists
    /\ nextKey <= MaxKeys
    /\ LET r == task[t]
           c == FreshId
       IN /\ convs' = [convs EXCEPT ![c] = NewConversation(r.u, r.other, nextKey, clock)]
          /\ Step(t, [r EXCEPT !.pc = "K_remote", !.c = c, !.w = 1, !.key = nextKey])
          /\ cache' = SaveLocal(cache, r.d, c, nextKey)
          /\ genCount' = [genCount EXCEPT ![c] = @ + 1]
          /\ origKey' = [origKey EXCEPT ![c] = nextKey]
    /\ nextKey' = nextKey + 1
    /\ clock' = clock + 1
    /\ UNCHANGED <<msgs, solo, marked, calls>>
    /\ UNCHANGED <<bench, erased>>

InitStart == Init

NextStart ==
    \/ \E t \in Tasks, d \in Devices, o \in {"A", "B"} : handlePress(t, d, o)
    \/ \E t \in Tasks : PressFind(t)
    \/ \E t \in Tasks : PressCreate(t)
    \/ \E t \in Tasks : SaveRemote(t)

SpecStart == InitStart /\ [][NextStart]_vars

\* ------------------------------------------------- sends in one conversation
\* ConversationScreen.handleSend on the devices of A and B in a conversation
\* that createConversation(A, B) made on A's device. A slot is one press of
\* the send button: two presses of one user (a second press before the first
\* send returned, or the user's second device) run side by side as two
\* presses of the two users do.

\* the key of the conversation and the clock when the screen is opened
SendKey == LegacyKey + 1
SendClock == 2

\* sendEncryptedMessage(id, user.id, input, user.id) is called
handleSend(t, d, message) ==
    /\ ~Running(t)
    /\ calls < MaxCalls
    /\ calls' = calls + 1
    /\ d \in ChatDevices
    /\ Outstanding("c1") < MaxMsgs
    /\ Step(t, LoadCache([Idle EXCEPT !.op = "send", !.d = d, !.u = UserOf(d),
                                      !.c = "c1", !.pt = message]))
    /\ solo' = [solo EXCEPT !["c1"] = @ /\ NoOtherCall(t, "c1")]
    /\ UNCHANGED marked
    /\ UNCHANGED <<convs, msgs, cache, nextKey, clock, genCount, origKey>>
    /\ UNCHANGED <<bench, erased>>

\* the document store rejects the operation the send awaits (the client is
\* offline, the write is denied): the error propagates to the caller
SendFails(t) ==
    /\ task[t].op = "send"
    /\ Running(t)
    /\ Step(t, [task[t] EXCEPT !.pc = "done", !.res = "error"])
    /\ UNCHANGED <<convs, msgs, cache, nextKey, clock, genCount, origKey, solo, marked, calls>>
    /\ UNCHANGED <<bench, erased>>

InitSend ==
    /\ convs = [c \in Conv |-> IF c = "c1" THEN NewConversation("A", "B", SendKey, 1)
                               ELSE NoDoc]
    /\ cache = [d \in Devices |-> [c \in Conv |->
                  IF d = "dA" /\ c = "c1" THEN SendKey ELSE None]]
    /\ msgs = [c \in Conv |-> <<>>]
    /\ task = [t \in Tasks |-> Idle]
    /\ ret = Idle
    /\ nextKey = SendKey + 1
    /\ clock = SendClock
    /\ genCount = [c \in Conv |-> IF c = "c1" THEN 1 ELSE 0]
    /\ origKey = [c \in Conv |-> IF c = "c1" THEN SendKey ELSE None]
    /\ solo = [c \in Conv |-> TRUE]
    /\ marked = [c \in Conv |-> FALSE]
    /\ calls = 0
    /\ erased = [d \in Devices |-> [c \in Conv |-> None]]
    /\ bench = NoBench

NextSend ==
    \/ \E t \in Tasks, d \in Devices, p \in Plain : handleSend(t, d, p)
    \/ \E t \in Tasks : LoadGetDoc(t)
    \/ \E t \in Tasks : SaveRemote(t)
    \/ \E t \in Tasks : SendAdd(t)
    \/ \E t \in Tasks : SendGetDoc(t)
    \/ \E t \in Tasks : SendSetDoc(t)

SpecSend == InitSend /\ [][NextSend]_vars

\* the same sends with a document store that can reject an operation
InitFail == InitSend

NextFail ==
    \/ NextSend
    \/ \E t \in Tasks : SendFails(t)

SpecFail == InitFail /\ [][NextFail]_vars

\* ------------------------------------------------- the conversation screen
\* B's conversation screen is open on "c1" and its listener stays subscribed
\* (subscribeToMessages("c1", callback, B)), while A starts the conversation
\* and sends on A's device. The store hands the listener a snapshot when the
\* messages of the query have changed since the last one (the first snapshot
\* is the state of the collection at subscription); every snapshot starts a
\* handler of its own, and the handlers of one listener run side by side.

\* mutant: the listener is handed the first snapshot and no later one
PendingOnce(pushed, n) == pushed = <<>>

\* onSnapshot: there is a snapshot of n messages the listener has not been
\* handed
Pending(pushed, n) == IF pushed = <<>> THEN TRUE ELSE pushed[Len(pushed)] # n

\* the store hands the listener the current snapshot: its handler starts and
\* awaits loadConversationKey
Snapshot(t) ==
    /\ ~Running(t)
    /\ Pending(bench.pushed, Len(msgs["c1"]))
    /\ Step(t, LoadCache([Idle EXCEPT !.op = "snapshot", !.d = "dB", !.u = "B",
                                      !.c = "c1", !.list = SnapshotDocs(msgs["c1"]),
                                      !.n = Len(msgs["c1"])]))
    /\ bench' = [bench EXCEPT !.pushed = Append(@, Len(msgs["c1"]))]
    /\ UNCHANGED <<convs, msgs, cache, nextKey, clock, genCount, origKey, solo, marked, calls>>
    /\ UNCHANGED erased

\* callback(messages) of the screen: setMessages(msgs)
ScreenCallback(t) ==
    /\ task[t].pc = "H_cb"
    /\ LET r == task[t]
           messages == Decrypted(r.list, r.key)
       IN /\ Step(t, [r EXCEPT !.pc = "done", !.res = "callback", !.list = messages])
          /\ bench' = [bench EXCEPT !.shown = Append(@, r.n), !.list = messages,
                                     !.seen = @ \cup {messages[k].id : k \in DOMAIN messages}]
    /\ UNCHANGED <<convs, msgs, cache, nextKey, clock, genCount, origKey, solo, marked, calls>>
    /\ UNCHANGED erased

InitScreen == Init

NextScreen ==
    \/ \E t \in Tasks : handlePress(t, "dA", "B")
    \/ \E t \in Tasks : PressFind(t)
    \/ \E t \in Tasks : PressCreate(t)
    \/ \E t \in Tasks, p \in Plain : handleSend(t, "dA", p)
    \/ \E t \in Tasks : LoadGetDoc(t)
    \/ \E t \in Tasks : LoadMigrate(t)
    \/ \E t \in Tasks : SaveRemote(t)
    \/ \E t \in Tasks : SendAdd(t)
    \/ \E t \in Tasks : SendGetDoc(t)
    \/ \E t \in Tasks : SendSetDoc(t)
    \/ \E t \in Tasks : Snapshot(t)
    \/ \E t \in Tasks : ScreenCallback(t)

\* a pending await of the call in slot t resumes
Resume(t) ==
    \/ PressFind(t) \/ PressCreate(t)
    \/ LoadGetDoc(t) \/ LoadMigrate(t) \/ SaveRemote(t)
    \/ SendAdd(t) \/ SendGetDoc(t) \/ SendSetDoc(t)
    \/ ScreenCallback(t)

\* the store hands over every change and every pending await resumes (no call
\* runs for ever, so an await that stays pending is one that is never resumed)
FairScreen ==
    /\ WF_vars(\E t \in Tasks : Snapshot(t))
    /\ WF_vars(\E t \in Tasks : Resume(t))

SpecScreen == InitScreen /\ [][NextScreen]_vars /\ FairScreen

\* ------------------------------------------------- properties
\* conversation c was written by createConversation of this service
Created(c) == origKey[c] # None

Participants(c) == Range(convs[c].participants)

\* the key a stored message was sealed under
KeyOf(m) == m.encryptedContent.bytes.tag.k

\* the call that has just returned was made on conversation c by a participant
ReturnedOn(op, c) ==
    ret.op = op /\ ret.c = c /\ ret.u \in Participants(c)

\* the list passed to the callback holds every message of the snapshot, each
\* with the sender and the plaintext it was sent with
DeliversAll(c) ==
    /\ ret.res = "callback"
    /\ Len(ret.list) = ret.n
    /\ \A i \in 1..Len(ret.list) :
          /\ ret.list[i].id = i
          /\ ret.list[i].senderId = msgs[c][i].senderId
          /\ ret.list[i].content \in Plain

\* C1: happy path. With no conversation between the two users findConversation
\* returns null; in a conversation made by createConversation a participant's
\* sendEncryptedMessage succeeds and encrypts under the creation key,
\* loadConversationKey returns that key to either participant, and a
\* participant's subscribeToMessages callback gets every message with the
\* sender and the content it was sent with.
C1_HappyPath ==
    /\ (ret.op = "find" /\ Chats = {}) => ret.res = "null"
    /\ \A c \in Conv : Created(c) =>
          /\ ReturnedOn("send", c) => ret.res = "sent"
          /\ \A i \in 1..Len(msgs[c]) : KeyOf(msgs[c][i]) = origKey[c]
          /\ ReturnedOn("load", c) => ret.key = origKey[c]
          /\ ReturnedOn("snapshot", c) => DeliversAll(c)

\* B's listener, whose key came from the shared record, is handed A's text
C1_Witness ==
    /\ ret.op = "snapshot" /\ ret.u = "B" /\ ret.res = "callback" /\ ret.w = 1
    /\ Created(ret.c) /\ convs[ret.c].participants = <<"A", "B">>
    /\ Len(ret.list) = 1
    /\ ret.list[1].senderId = "A" /\ ret.list[1].content = <<"h">>

\* C2: key stability. After createConversation, loadConversationKey returns the
\* key generated at creation to each participant, from local storage or from
\* the shared record.
C2_KeyStability ==
    \A c \in Conv : (Created(c) /\ ReturnedOn("load", c)) =>
        ret.res = "key" /\ ret.key = origKey[c]

\* B's load was served from the shared record while A's device holds the key
C2_Witness ==
    /\ ret.op = "load" /\ ret.u = "B" /\ ret.w = 1 /\ ret.res = "key"
    /\ convs[ret.c].participants = <<"A", "B">>
    /\ cache["dA"][ret.c] = ret.key /\ Created(ret.c)

\* C3: no rotation. For a conversation made by createConversation, every entry
\* of conversationKeysByUser and every key in a local storage for it is the key
\* generated at creation, whatever calls have run or are running.
C3_NoRotation ==
    \A c \in Conv : Created(c) =>
        /\ \A u \in Users : convs[c].keys[u] \in {None, origKey[c]}
        /\ \A d \in Devices : cache[d][c] \in {None, origKey[c]}
        /\ \A p \in Participants(c) : convs[c].keys[p] = origKey[c]

\* B has marked A's message read and holds the key, a call still in flight
C3_Witness ==
    \E c \in Conv :
        /\ Created(c) /\ cache["dB"][c] = origKey[c]
        /\ \E i \in 1..Len(msgs[c]) : msgs[c][i].read
        /\ \E t \in Tasks : Running(t) /\ task[t].c = c

\* conversationKeysByUser of c holds one key for every participant
UniformKeys(c) ==
    \A p, q \in Participants(c) :
        convs[c].keys[p] # None /\ convs[c].keys[p] = convs[c].keys[q]

\* at most one call has generated a key for c: c was created with its map, or
\* is a legacy conversation that one call has migrated
OneKeyGenerated(c) == Created(c) \/ genCount[c] <= 1

\* C4 as claimed: whenever conversationKeysByUser is populated it maps every
\* participant to one identical key, concurrent migrations included.
C4_SharedMap ==
    \A c \in Conv : convs[c].hasKeys => UniformKeys(c)

\* C4 as amended: a populated conversationKeysByUser maps every participant to
\* one identical key in a created conversation and in a legacy conversation
\* that a single call has migrated.
C4_SharedMapUnlessRaced ==
    \A c \in Conv : (convs[c].hasKeys /\ OneKeyGenerated(c)) => UniformKeys(c)

\* both participants are inside loadConversationKey on a migrated legacy
\* conversation
C4_Witness ==
    \E c \in Conv :
        /\ ~Created(c) /\ convs[c].hasKeys /\ genCount[c] = 1
        /\ \A t \in Tasks : Running(t) /\ task[t].c = c /\ task[t].u \in {"A", "B"}

\* the key in d's local storage for c is the key of every entry of the record
CacheAgrees(d, c) ==
    \A u \in Users : convs[c].keys[u] \in {None, cache[d][c]}

LegacyInSequence(c) == c \in Chats /\ ~Created(c) /\ solo[c]

C8_FailClosed ==
    /\ (ret.op = "send" /\ ret.key = None) => (ret.res = "error" /\ ret.w = 0)
    /\ (ret.op = "send" /\ ret.res = "error") => ret.key = None
    /\ \A t \in Tasks :
          task[t].pc \in {"S_add", "S_get", "S_set"} => task[t].key \in Keys
    /\ \A c \in Conv : \A i \in 1..Len(msgs[c]) :
          KeyOf(msgs[c][i]) \in Keys \cup {LegacyKey}

\* X, who has no entry in a populated map, gets the error
C8_Witness ==
    /\ ret.op = "send" /\ ret.res = "error" /\ ret.u = "X"
    /\ convs[ret.c].hasKeys

\* no call is in flight
Quiet == \A t \in Tasks : ~Running(t)

\* C9: unread accounting. After N sendEncryptedMessage calls from A to B made
\* one after the other with no markMessagesAsRead, unreadCount[B] read from the
\* conversation document is N; markMessagesAsRead(c, B) then leaves it at 0,
\* having set read on exactly the messages it found unread from A.
C9_UnreadAccounting ==
    \A c \in Chats :
        /\ (/\ Quiet /\ solo[c] /\ ~marked[c]
            /\ Participants(c) = {"A", "B"}
            /\ \A i \in 1..Len(msgs[c]) : msgs[c][i].senderId = "A")
           => CurrentUnread(convs[c], "B") = Len(msgs[c])
        /\ (ret.op = "mark" /\ ret.c = c /\ ret.u = "B" /\ solo[c])
           => /\ CurrentUnread(convs[c], "B") = 0
              /\ ret.w = ret.n + 1
              /\ \A i \in 1..Len(msgs[c]) : msgs[c][i].senderId = "A" => msgs[c][i].read

\* C10: effect of a successful send. The step of a send that appends appends
\* one message with senderId = S and read = false; the step on which the send
\* returns leaves lastMessageAt later than it was, the unread counter of the
\* participant other than S one higher, and S's own counter as it was.
C10_SendEffect ==
    [][\A t \in Tasks :
        LET r == task[t]
            c == r.c
            other == OtherUser(convs[c].participants, r.u)
        IN /\ (r.pc = "S_add" /\ task'[t] # r) =>
                 /\ Len(msgs'[c]) = Len(msgs[c]) + 1
                 /\ msgs'[c][Len(msgs'[c])].senderId = r.u
                 /\ ~msgs'[c][Len(msgs'[c])].read
           /\ (r.op = "send" /\ r.pc \in {"S_get", "S_set"} /\ task'[t] = Idle) =>
                 /\ ret'.res = "sent"
                 /\ convs'[c].lastMessageAt > convs[c].lastMessageAt
                 /\ other # "" =>
                       CurrentUnread(convs'[c], other) = CurrentUnread(convs[c], other) + 1
                 /\ CurrentUnread(convs'[c], r.u) = CurrentUnread(convs[c], r.u)
      ]_vars

\* the documents of the collection that open under the key: those sealed under
\* it whose stored ciphertext was not corrupted
Readable(docs, bad, sharedKey) ==
    {i \in DOMAIN docs : i \notin bad /\ KeyOf(docs[i]) = sharedKey}

PlaceInSnapshot(id) == CHOOSE k \in DOMAIN bench.snap : bench.snap[k].id = id

\* C12: ordering. Every list passed to the callback is in ascending timestamp
\* order and keeps the order of the snapshot: of two messages of the list the
\* earlier one stands earlier in the snapshot, whatever was dropped between
\* or around them.
C12_Ordering ==
    bench.did = "handle" =>
        \A m, n \in DOMAIN bench.list :
            m < n =>
                /\ bench.list[m].timestamp <= bench.list[n].timestamp
                /\ PlaceInSnapshot(bench.list[m].id) < PlaceInSnapshot(bench.list[n].id)

\* three messages added against the order of their timestamps, the middle one
\* of the snapshot dropped: the other two are passed on in timestamp order
C12_Witness ==
    /\ bench.did = "handle"
    /\ Len(bench.docs) = 3
    /\ bench.docs[1].timestamp > bench.docs[2].timestamp
    /\ bench.snap[1].id = 2 /\ bench.snap[2].id = 3 /\ bench.snap[3].id = 1
    /\ Len(bench.list) = 2
    /\ bench.list[1].id = 2 /\ bench.list[2].id = 1

\* C13: the message lifecycle is one-way. In every step of the service no
\* message is deleted, a stored message keeps its senderId, encryptedContent
\* and timestamp, a read flag that is true stays true, and a message that is
\* added is added with read = false.
C13_Lifecycle ==
    [][\A c \in Conv :
          /\ Len(msgs'[c]) >= Len(msgs[c])
          /\ \A i \in 1..Len(msgs[c]) :
                /\ msgs'[c][i].senderId = msgs[c][i].senderId
                /\ msgs'[c][i].encryptedContent = msgs[c][i].encryptedContent
                /\ msgs'[c][i].timestamp = msgs[c][i].timestamp
                /\ msgs[c][i].read => msgs'[c][i].read
          /\ \A i \in (Len(msgs[c]) + 1)..Len(msgs'[c]) : ~msgs'[c][i].read
      ]_vars

\* a message that markMessagesAsRead has set read, followed by one still unread
C13_Witness ==
    \E c \in Conv :
        /\ Len(msgs[c]) = 2
        /\ msgs[c][1].read
        /\ ~msgs[c][2].read
        /\ ret.op = "mark" /\ ret.res = "marked"

\* C14: saveConversationKey(C, key, U) merges. The turn that calls it writes
\* key into the caller's local storage under C; the step on which its setDoc
\* lands sets conversationKeysByUser[U] = key and leaves every other user's
\* entry, participants, lastMessageAt, the unread fields and every other
\* conversation as they were.
C14_SaveMerges ==
    [][\A t \in Tasks :
          LET r == task[t]
              q == task'[t]
          IN /\ (q.pc = "K_remote" /\ r.pc # "K_remote") => cache'[q.d][q.c] = q.key
             /\ (r.pc = "K_remote" /\ q.pc # "K_remote") =>
                   /\ convs'[r.c].hasKeys
                   /\ convs'[r.c].keys[r.u] = r.key
                   /\ \A o \in Users \ {r.u} : convs'[r.c].keys[o] = convs[r.c].keys[o]
                   /\ convs'[r.c].participants = convs[r.c].participants
                   /\ convs'[r.c].lastMessageAt = convs[r.c].lastMessageAt
                   /\ convs'[r.c].unreadCount = convs[r.c].unreadCount
                   /\ convs'[r.c].dotted = convs[r.c].dotted
                   /\ \A c \in Conv \ {r.c} : convs'[c] = convs[c]
      ]_vars

\* a save has just landed beside another participant's different key, which
\* is still there
C14_Witness ==
    /\ ret.op = "load" /\ ret.w >= 1
    /\ convs[ret.c].keys[ret.u] = ret.key
    /\ \E o \in Participants(ret.c) \ {ret.u} :
          convs[ret.c].keys[o] \notin {None, ret.key}
    /\ cache[ret.d][ret.c] = ret.key

\* C15: the local cache is only an optimization. After the entry of a
\* participant's device for a conversation was erased, loadConversationKey
\* returns to that participant the key that was erased, the one the earlier
\* calls returned.
C15_CacheOptional ==
    (/\ ret.op = "load"
     /\ ret.u \in Participants(ret.c)
     /\ erased[ret.d][ret.c] # None)
    => ret.key = erased[ret.d][ret.c]

\* C16: round trip. decryptMessage of what encryptMessage(P, K) returned,
\* under the same key K, returns P, for every string P.
C16_RoundTrip ==
    (bench.did = "decrypt" /\ bench.how = "" /\ bench.dk = bench.key)
    => bench.out = [ok |-> TRUE, text |-> bench.pt]

\* C17: authentication failure is an error. decryptMessage raises an error,
\* and returns no string, when the key is not the one the text was encrypted
\* under and when one byte of the text encryptMessage returned was changed.
C17_AuthFailure ==
    (bench.did = "decrypt" /\ (bench.dk # bench.key \/ bench.how # ""))
    => bench.out = Failed

\* the messages of the snapshot a returned handler was given that are sealed
\* under the key it resolved
SealedUnderKey(c) ==
    {i \in 1..ret.n : KeyOf(msgs[c][i]) = ret.key}

\* C18: known race (a). Two keys are generated for a legacy conversation only
\* when calls on it overlapped, and a listener drops every message of its
\* snapshot sealed under a key other than the one it resolved; the state in
\* which both participants hold and have persisted different generated keys
\* and B's listener has dropped A's message is reachable (C18_Witness).
C18_RaceA ==
    \A c \in Chats :
        /\ (~Created(c) /\ genCount[c] >= 2) => ~solo[c]
        /\ (ret.op = "snapshot" /\ ret.c = c /\ ret.res = "callback") =>
              Len(ret.list) = Cardinality(SealedUnderKey(c))

\* both first loads of the legacy conversation generated a key, each device
\* holds its own, the shared record holds them, and B's listener has passed on
\* an empty list for a snapshot holding the message A sealed under A's key
C18_Witness ==
    /\ ~Created("c1") /\ genCount["c1"] = 2
    /\ cache["dA"]["c1"] > LegacyKey /\ cache["dB"]["c1"] > LegacyKey
    /\ cache["dA"]["c1"] # cache["dB"]["c1"]
    /\ {convs["c1"].keys["A"], convs["c1"].keys["B"]}
          \subseteq {cache["dA"]["c1"], cache["dB"]["c1"]}
    /\ ret.op = "snapshot" /\ ret.c = "c1" /\ ret.u = "B" /\ ret.res = "callback"
    /\ ret.key = cache["dB"]["c1"]
    /\ ret.n = 1 /\ msgs["c1"][1].senderId = "A"
    /\ KeyOf(msgs["c1"][1]) = cache["dA"]["c1"]
    /\ ret.list = <<>>

\* C19: known race (b). When markMessagesAsRead(C, U) returns, U's unread
\* counter is 0 and every message of the user U chats with that was added
\* after its query is still unread (U alone marks that user's messages); the
\* state in which B's counter is 0, A's send has completed and A's message is
\* unread is reachable (C19_Witness).
C19_RaceB ==
    (ret.op = "mark" /\ ret.res = "marked") =>
        /\ convs[ret.c].dotted[ret.u] = 0
        /\ CurrentUnread(convs[ret.c], ret.u) = 0
        /\ \A i \in (ret.cur + 1)..Len(msgs[ret.c]) :
              msgs[ret.c][i].senderId \in {"A", "B"} \ {ret.u} => ~msgs[ret.c][i].read

\* B's mark has returned with the counter at 0; A's message arrived after B's
\* query, A's setDoc of the counter landed before B's reset (lastMessageAt is
\* later than the message) and the message is unread
C19_Witness ==
    /\ ret.op = "mark" /\ ret.u = "B" /\ ret.res = "marked"
    /\ Quiet
    /\ convs[ret.c].dotted["B"] = 0
    /\ \E i \in (ret.cur + 1)..Len(msgs[ret.c]) :
          /\ msgs[ret.c][i].senderId = "A"
          /\ ~msgs[ret.c][i].read
          /\ convs[ret.c].lastMessageAt > msgs[ret.c][i].timestamp

\* C20: cancellation. Once the unsubscribe handle of a listener has been
\* invoked its callback is not invoked again, also not by a handler whose key
\* lookup was in flight at that moment.
C20_Cancellation ==
    (ret.op = "snapshot" /\ ret.res = "callback") => ~ret.off

\* C22: key not found. When the conversation document has a
\* conversationKeysByUser map without an entry for U, the step on which the
\* getDoc of loadConversationKey(C, U) lands generates no key and writes
\* nothing to a conversation document, to a messages collection or to a local
\* storage, and the call returns null.
C22_KeyNotFound ==
    [][\A t \in Tasks :
          LET r == task[t]
              data == convs[r.c]
          IN (/\ r.pc = "L_get" /\ task'[t].pc # "L_get"
              /\ data.exists /\ data.hasKeys /\ data.keys[r.u] = None) =>
                /\ convs' = convs /\ msgs' = msgs /\ cache' = cache
                /\ nextKey' = nextKey /\ genCount' = genCount
                /\ ret'.w = 0 /\ ret'.key = None
                /\ r.op = "load" => (ret'.op = "load" /\ ret'.res = "null")
      ]_vars

\* X's loadConversationKey has returned null on a conversation whose map holds
\* the participants' keys, X's local storage being empty
C22_Witness ==
    /\ ret.op = "load" /\ ret.u = "X" /\ ret.res = "null" /\ ret.w = 0
    /\ convs[ret.c].hasKeys /\ convs[ret.c].keys["X"] = None
    /\ convs[ret.c].keys["A"] # None
    /\ cache["dX"][ret.c] = None

\* C23: fast path. A loadConversationKey(C, U) called while the local storage
\* of the device holds a key for C returns in the turn of the call, without an
\* await on the document store: it returns that key, has written nothing, and
\* the conversation documents and the local storage are as they were.
C23_FastPath ==
    [][\A d \in Devices, c \in Conv :
          (cache[d][c] # None /\ calls' = calls + 1) =>
              /\ \A t \in Tasks :
                    (task[t].pc = "done" /\ task'[t].op = "load") =>
                        ~(task'[t].d = d /\ task'[t].c = c)
              /\ (ret'.op = "load" /\ ret'.d = d /\ ret'.c = c) =>
                    /\ ret'.res = "key" /\ ret'.key = cache[d][c] /\ ret'.w = 0
                    /\ convs' = convs /\ cache' = cache /\ task' = task
      ]_vars

\* A is given the key its device kept from before the map existed, although
\* the shared record holds another key for A
C23_Witness ==
    /\ ret.op = "load" /\ ret.u = "A" /\ ret.res = "key" /\ ret.w = 0
    /\ ret.key = LegacyKey /\ cache["dA"][ret.c] = LegacyKey
    /\ convs[ret.c].hasKeys /\ convs[ret.c].keys["A"] \notin {None, LegacyKey}

\* C24: findConversation(X, Y) returns the id of a conversation whose
\* participants contain both X and Y when there is one and null otherwise,
\* also for X = Y; it finds one for (X, Y) exactly when it finds one for
\* (Y, X), and the conversation it returns is the one between X and Y: its
\* participants are X and Y.
C24_FindConversation ==
    ret.op = "find" =>
        LET hits == {c \in Conv : /\ convs[c].exists
                                  /\ {ret.u, ret.other} \subseteq Participants(c)}
        IN /\ (ret.res = "null") <=> (hits = {})
           /\ ret.res = "id" => ret.id \in hits
           /\ (ret.id = "") <=> (FindResult(convs, ret.other, ret.u) = "")
           /\ ret.res = "id" => Participants(ret.id) = {ret.u, ret.other}

\* C29: key-map membership. In every reachable state the users with an entry
\* in conversationKeysByUser of a conversation are participants of it,
\* whichever user calls loadConversationKey or sendEncryptedMessage.
C29_KeyMapMembership ==
    \A c \in Conv :
        {u \in Users : convs[c].keys[u] # None} \subseteq Participants(c)

\* C26: conversation uniqueness per pair. Whatever the interleaving of the
\* start-conversation flows of A towards B and of B towards A, at most one
\* conversation document has the participants A and B.
C26_Uniqueness ==
    Cardinality({c \in Conv : convs[c].exists /\ Participants(c) = {"A", "B"}}) <= 1

\* C28: send atomicity on error. The step of a send on which its addDoc lands
\* appends the message of the call, and a sendEncryptedMessage that raises an
\* error to its caller raises it before that step: no message of the call
\* has been appended, also when the operation that failed is the getDoc or
\* the setDoc of the conversation document.
C28_SendAtomicity ==
    [][\A t \in Tasks :
          LET r == task[t]
          IN /\ (r.pc = "S_add" /\ task'[t].pc = "S_get") =>
                   /\ Len(msgs'[r.c]) = Len(msgs[r.c]) + 1
                   /\ msgs'[r.c][Len(msgs'[r.c])].senderId = r.u
             /\ (r.op = "send" /\ Running(t) /\ task'[t] = Idle /\ ret'.res = "error") =>
                   r.pc \notin {"S_get", "S_set"}
      ]_vars

\* C30: no lost unread increments. When two sendEncryptedMessage calls of A
\* to B in one conversation overlapped and both have returned, with no
\* markMessagesAsRead, B's unread counter (0 before; read as the code reads it,
\* unreadCount[B], or from the field the code writes) is 2.
C30_NoLostIncrement ==
    (/\ Quiet /\ ~solo["c1"]
     /\ Len(msgs["c1"]) = 2
     /\ \A i \in 1..Len(msgs["c1"]) : msgs["c1"][i].senderId = "A")
    => \/ CurrentUnread(convs["c1"], "B") = 2
       \/ convs["c1"].dotted["B"] = 2

\* C27: callback freshness. The callback of one listener is invoked for the
\* snapshots in the order in which the store handed them over: after the list
\* of a snapshot it is never invoked with the list of an older one.
C27_Freshness ==
    \A i, j \in DOMAIN bench.shown :
        i < j => bench.shown[i] <= bench.shown[j]

\* the key loadConversationKey("c1", B) returns on B's device when it is found
\* in local storage or in the shared record
ResolvedKey ==
    IF cache["dB"]["c1"] # None THEN cache["dB"]["c1"]
    ELSE IF convs["c1"].exists /\ HasFirestoreKey(convs["c1"], "B")
         THEN convs["c1"].keys["B"]
         ELSE None

\* loadConversationKey("c1", B) returns a key: a key it finds or one it generates
CanResolve ==
    \/ ResolvedKey # None
    \/ convs["c1"].exists /\ NeedsMigration(convs["c1"])

\* message i of "c1" is a message A's send has added
SentByA(i) == i <= Len(msgs["c1"]) /\ msgs["c1"][i].senderId = "A"

\* the callback of B's screen has been invoked with a list that holds message i
Shown(i) == i \in bench.seen

Missed ==
    {n \in Range(bench.pushed) :
        /\ n \notin Range(bench.shown)
        /\ ~\E t \in Tasks : task[t].op = "snapshot" /\ Running(t) /\ task[t].n = n}

\* the getDoc of loadConversationKey finds no key for the user and nothing to
\* migrate
NotFound(data, userId) ==
    ~(data.exists /\ (HasFirestoreKey(data, userId) \/ NeedsMigration(data)))

\* C25: key not found on the read path. A snapshot handler whose
\* loadConversationKey finds no key returns without raising and without
\* invoking the callback (what the screen shows stays as it was), and the
\* listener stays subscribed: the handler of a later snapshot, running when
\* the key can be resolved, invokes the callback for that snapshot.
C25_KeyNotFoundOnRead ==
    /\ [][\A t \in Tasks :
            LET r == task[t]
            IN (/\ r.op = "snapshot" /\ r.pc = "L_get" /\ task'[t].pc # "L_get"
                /\ NotFound(convs[r.c], r.u)) =>
                  /\ task'[t] = Idle
                  /\ ret'.op = "snapshot" /\ ret'.res = "nokey" /\ ret'.key = None
                  /\ bench' = bench
       ]_vars
    /\ \A n \in 0..MaxMsgs :
          (/\ Missed # {}
           /\ \E t \in Tasks : task[t].op = "snapshot" /\ Running(t) /\ task[t].n = n
           /\ CanResolve)
          ~> (\E k \in DOMAIN bench.shown : bench.shown[k] = n)

\* the handler of the first snapshot found no conversation document and
\* returned; the conversation was then made and A's message sent, and the
\* handler of the next snapshot has passed the message on
C25_Witness ==
    /\ bench.pushed = <<0, 1>> /\ bench.shown = <<1>>
    /\ Missed = {0}
    /\ ret.op = "snapshot" /\ ret.res = "callback"
    /\ Len(bench.list) = 1 /\ bench.list[1].id = 1 /\ bench.list[1].senderId = "A"
    /\ bench.list[1].content \in Plain

====
